---- MODULE Spec2Model ----
(***************************************************************************)
(* Model of src/app/utils/duffle.ts: the resolution of the duffle binary   *)
(* (findDuffleBinary / findDuffleBinaryCore and the module-level cache),   *)
(* the invocation facade (invokeObj), the argument renderers and the list  *)
(* parsers.                                                                *)
(*                                                                         *)
(* Strings are sequences of one-character strings, so that trimming,       *)
(* splitting, joining and concatenation are computed, not assumed.         *)
(***************************************************************************)
EXTENDS Integers, Sequences, FiniteSets, TLC

\* JavaScript's undefined.
None == [undefined |-> TRUE]

\* A string where undefined is possible too.
Some(s) == [some |-> s]

-----------------------------------------------------------------------------
(* String helpers: what the JavaScript string methods used by the code do. *)

\* The whitespace characters String.prototype.trim removes (those the model uses).
WhiteSpace == {" ", "\n", "\t"}

RECURSIVE TrimLeft(_)
TrimLeft(s) ==
    IF s = <<>> THEN <<>>
    ELSE IF Head(s) \in WhiteSpace THEN TrimLeft(Tail(s)) ELSE s

RECURSIVE TrimRight(_)
TrimRight(s) ==
    IF s = <<>> THEN <<>>
    ELSE IF s[Len(s)] \in WhiteSpace THEN TrimRight(SubSeq(s, 1, Len(s) - 1)) ELSE s

\* String.prototype.trim
Trim(s) == TrimRight(TrimLeft(s))

\* String.prototype.split(sep) for a one-character separator: the pieces
\* between separators, empty pieces included ("" splits to [""]).
RECURSIVE SplitFrom(_, _, _)
SplitFrom(s, sep, cur) ==
    IF s = <<>> THEN <<cur>>
    ELSE IF Head(s) = sep THEN <<cur>> \o SplitFrom(Tail(s), sep, <<>>)
    ELSE SplitFrom(Tail(s), sep, Append(cur, Head(s)))

Split(s, sep) == SplitFrom(s, sep, <<>>)

\* Array.prototype.join(sep): the items with sep between consecutive items.
RECURSIVE Join(_, _)
Join(items, sep) ==
    IF items = <<>> THEN <<>>
    ELSE IF Len(items) = 1 THEN items[1]
    ELSE items[1] \o sep \o Join(Tail(items), sep)

\* Array.prototype.filter with the predicate "is a non-empty string".
RECURSIVE NonEmptyOnly(_)
NonEmptyOnly(items) ==
    IF items = <<>> THEN <<>>
    ELSE IF Len(Head(items)) > 0 THEN <<Head(items)>> \o NonEmptyOnly(Tail(items))
    ELSE NonEmptyOnly(Tail(items))

\* Array.prototype.map(l => l.trim())
TrimEach(items) == [i \in 1..Len(items) |-> Trim(items[i])]

Space == <<" ">>
Quote == <<"\"">>

-----------------------------------------------------------------------------
(* The list parsers.                                                       *)

\* A parser that kept the blank lines.
ParseList_NoFilter(stdout) == TrimEach(Split(stdout, "\n"))

\* parse of list()
ParseList(stdout) == NonEmptyOnly(TrimEach(Split(stdout, "\n")))

\* parse of listCredentialSets()
ParseCredentialSets(stdout) == NonEmptyOnly(TrimEach(Split(stdout, "\n")))

\* (s) => null, the parser of every mutating operation
ParseNull(stdout) == [null |-> TRUE]

-----------------------------------------------------------------------------
(* The argument renderers.                                                 *)

\* shell.safeValue: a value holding a space is wrapped in double quotes.
SafeValue(v) ==
    IF \E i \in 1..Len(v) : v[i] = " " THEN Quote \o v \o Quote ELSE v

\* pairs.fromStringMap: the entries of the mapping as key/value pairs, in the
\* mapping's iteration order.  A mapping is modelled as the sequence of its
\* entries in that order.
FromStringMap(parameters) == parameters

RECURSIVE TruthyValues(_)
TruthyValues(ps) ==
    IF ps = <<>> THEN <<>>
    ELSE IF Head(ps).value # <<>> THEN <<Head(ps)>> \o TruthyValues(Tail(ps))
    ELSE TruthyValues(Tail(ps))

SetToken(p) == <<"-", "-", "s", "e", "t", " ">> \o p.key \o <<"=">> \o SafeValue(p.value)

\* A renderer that kept the entries with an empty value.
paramsArgs_NoFilter(parameters) ==
    LET ps == FromStringMap(parameters)
    IN  Join([i \in 1..Len(ps) |-> SetToken(ps[i])], Space)

paramsArgs(parameters) ==
    LET ps == TruthyValues(FromStringMap(parameters))
    IN  Join([i \in 1..Len(ps) |-> SetToken(ps[i])], Space)

\* A credential set that is undefined or the empty string is falsy.
credentialArg(credentialSet) ==
    IF credentialSet # None /\ credentialSet.some # <<>>
    THEN <<"-", "c", " ">> \o credentialSet.some
    ELSE <<>>


\* A template without the installation name.
InstallBundleArgs_NoName(bundleName, name, params, credentialSet) ==
    bundleName \o Space \o paramsArgs(params) \o Space \o credentialArg(credentialSet)

\* `${name} ${bundleName} ${paramsArgs(params)} ${credentialArg(credentialSet)}`
InstallBundleArgs(bundleName, name, params, credentialSet) ==
    name \o Space \o bundleName \o Space \o paramsArgs(params)
         \o Space \o credentialArg(credentialSet)

\* `${name} -f "${bundleFilePath}" ${paramsArgs(params)} ${credentialArg(credentialSet)}`
InstallFileArgs(bundleFilePath, name, params, credentialSet) ==
    name \o Space \o <<"-", "f", " ">> \o Quote \o bundleFilePath \o Quote
         \o Space \o paramsArgs(params) \o Space \o credentialArg(credentialSet)

-----------------------------------------------------------------------------
(* The text of the commands.                                               *)

S_duffle == <<"d", "u", "f", "f", "l", "e">>
S_version == <<"v", "e", "r", "s", "i", "o", "n">>
S_list == <<"l", "i", "s", "t">>
S_credentialsList == <<"c", "r", "e", "d", "e", "n", "t", "i", "a", "l", "s", " ", "l", "i", "s", "t">>
S_install == <<"i", "n", "s", "t", "a", "l", "l">>
S_winPath == <<"d", "u", "f", "f", "l", "e", "b", "i", "n", "/", "w", "i", "n", "3", "2", "/", "d", "u", "f", "f", "l", "e", ".", "e", "x", "e">>
S_linuxPath == <<"d", "u", "f", "f", "l", "e", "b", "i", "n", "/", "l", "i", "n", "u", "x", "/", "d", "u", "f", "f", "l", "e">>
S_macPath == <<"d", "u", "f", "f", "l", "e", "b", "i", "n", "/", "d", "a", "r", "w", "i", "n", "/", "d", "u", "f", "f", "l", "e">>
S_cantFind == <<"C", "a", "n", "'", "t", " ", "f", "i", "n", "d", " ", "D", "u", "f", "f", "l", "e", " ", "o", "n", " ", "t", "h", "i", "s", " ", "m", "a", "c", "h", "i", "n", "e", ".", " ", "I", "n", "s", "t", "a", "l", "l", " ", "i", "t", " ", "o", "n", " ", "y", "o", "u", "r", " ", "s", "y", "s", "t", "e", "m", " ", "P", "A", "T", "H", " ", "a", "n", "d", " ", "r", "e", "s", "t", "a", "r", "t", " ", "t", "h", "e", " ", "i", "n", "s", "t", "a", "l", "l", "e", "r", ".">>

-----------------------------------------------------------------------------
(* The collaborators: the shell, the platform and the resource root.       *)

Platforms == {"Windows", "Linux", "MacOS", "Unsupported"}

\* process.resourcesPath: undefined outside a packaged application.
ResourcesPaths == {None, Some(<<>>), Some(<<"/", "r", "/">>)}

\* What a version probe can print.
VersionStdouts == {<<"v", "1", "\n">>, <<" ", "v", "2">>}

\* What the tool can print for a list command.
ListStdouts == {<<"a", "\n", " ", "b", " ", "\n">>}

StartFailure == [started |-> FALSE, code |-> -1, stdout |-> <<>>]

Exited(code, stdout) == [started |-> TRUE, code |-> code, stdout |-> stdout]

\* The outcomes of sh.exec for a version probe: the process cannot be
\* started, or it exits with a code and some output.
ProbeOutcomes ==
    {StartFailure, Exited(1, <<>>)} \cup {Exited(0, s) : s \in VersionStdouts}

\* The outcomes of the process run by sh.execObj.
CommandOutcomes ==
    {StartFailure, Exited(1, <<>>)} \cup {Exited(0, s) : s \in ListStdouts}

\* path.join(a, b): a, a separator, b, with repeated separators collapsed.
RECURSIVE CollapseSlashes(_)
CollapseSlashes(s) ==
    IF Len(s) < 2 THEN s
    ELSE IF s[1] = "/" /\ s[2] = "/" THEN CollapseSlashes(Tail(s))
    ELSE <<s[1]>> \o CollapseSlashes(Tail(s))

PathJoin(a, b) == CollapseSlashes(a \o <<"/">> \o b)

-----------------------------------------------------------------------------
(* Binary resolution.                                                      *)

BinaryInfo(path, version) == [path |-> path, version |-> version]

\* A switch whose default fell through to the Linux binary.
duffleResourcePath_DefaultLinux(p) ==
    CASE p = "Windows" -> Some(S_winPath)
      [] p = "MacOS"   -> Some(S_macPath)
      [] OTHER         -> Some(S_linuxPath)

duffleResourcePath(p) ==
    CASE p = "Windows" -> Some(S_winPath)
      [] p = "Linux"   -> Some(S_linuxPath)
      [] p = "MacOS"   -> Some(S_macPath)
      [] OTHER         -> None

\* succeeded(sr) && sr.result.code === 0
ProbeOk(sr) == sr.started /\ sr.code = 0

\* The command of the system probe.
SystemProbeCmd == S_duffle \o Space \o S_version

\* `${binPath} version`
BundledProbeCmd(binPath) == binPath \o Space \o S_version

\* A core that kept the raw stdout of the system probe as the version.
CoreAfterSystemProbe_NoTrim(sr, plat, root) ==
    IF ProbeOk(sr)
    THEN [returns |-> TRUE, value |-> BinaryInfo(S_duffle, sr.stdout)]
    ELSE IF duffleResourcePath(plat) = None
    THEN [returns |-> TRUE, value |-> None]
    ELSE IF root = None \/ root.some = <<>>
    THEN [returns |-> TRUE, value |-> None]
    ELSE [returns |-> FALSE,
          binPath |-> PathJoin(root.some, duffleResourcePath(plat).some)]

\* findDuffleBinaryCore from the completion of the system probe to its next
\* await or return: the value returned, or the bundled binary to probe.
CoreAfterSystemProbe(sr, plat, root) ==
    IF ProbeOk(sr)
    THEN [returns |-> TRUE, value |-> BinaryInfo(S_duffle, Trim(sr.stdout))]
    ELSE IF duffleResourcePath(plat) = None
    THEN [returns |-> TRUE, value |-> None]
    ELSE IF root = None \/ root.some = <<>>
    THEN [returns |-> TRUE, value |-> None]
    ELSE [returns |-> FALSE,
          binPath |-> PathJoin(root.some, duffleResourcePath(plat).some)]

\* findDuffleBinaryCore from the completion of the bundled probe to its return.
CoreAfterBundledProbe(srr, binPath) ==
    IF ProbeOk(srr) THEN BinaryInfo(binPath, Trim(srr.stdout)) ELSE None

-----------------------------------------------------------------------------
(* The requests: what each operation passes to invokeObj.                  *)

Request(op, command, args, parser) ==
    [op |-> op, command |-> command, args |-> args, parser |-> parser]

\* A direct call of the exported findDuffleBinary.
FindRequest == Request("findDuffleBinary", <<>>, <<>>, "none")

ListRequest == Request("list", S_list, <<>>, "list")

ListCredentialSetsRequest ==
    Request("listCredentialSets", S_credentialsList, <<>>, "credentialSets")

\* installBundle(sh, "foo", "n", {x: "1", y: ""}, "creds")
SampleBundle == <<"f", "o", "o">>
SampleName == <<"n">>
SampleParams ==
    << [key |-> <<"x">>, value |-> <<"1">>], [key |-> <<"y">>, value |-> <<>>] >>
SampleCreds == <<"c", "r", "e", "d", "s">>

InstallBundleRequest ==
    Request("installBundle", S_install,
            InstallBundleArgs(SampleBundle, SampleName, SampleParams, Some(SampleCreds)),
            "null")

ApplyParser(parser, stdout) ==
    CASE parser = "list"           -> [lines |-> ParseList(stdout)]
      [] parser = "credentialSets" -> [lines |-> ParseCredentialSets(stdout)]
      [] OTHER                     -> ParseNull(stdout)

\* A command line that left the operation out.
CommandLine_NoOperation(b, command, args) == b.path \o Space \o args

\* `${bin.path} ${command} ${args}`
CommandLine(b, command, args) == b.path \o Space \o command \o Space \o args

\* The result of invokeObj when no binary was found.
CantFindResult == [succeeded |-> FALSE, error |-> <<S_cantFind>>]

\* An invokeObj without the early return, running the bare name instead.
InvokeAfterResolve_NoShortCircuit(b, r) ==
    [returns |-> FALSE,
     cmd |-> CommandLine(IF b = None THEN BinaryInfo(S_duffle, <<>>) ELSE b,
                         r.command, r.args)]

\* invokeObj from the return of findDuffleBinary to its return or to its
\* await of sh.execObj: the failure returned, or the command line executed.
InvokeAfterResolve(b, r) ==
    IF b = None
    THEN [returns |-> TRUE, value |-> CantFindResult]
    ELSE [returns |-> FALSE, cmd |-> CommandLine(b, r.command, r.args)]

\* sh.execObj: the parser is applied to stdout when the process ran and
\* exited with code 0; anything else is a failure carrying one message.
ExecObjResult(out, parser) ==
    IF out.started /\ out.code = 0
    THEN [succeeded |-> TRUE, result |-> ApplyParser(parser, out.stdout)]
    ELSE [succeeded |-> FALSE, error |-> <<out.stdout>>]

ExecObjParses(out) == out.started /\ out.code = 0

-----------------------------------------------------------------------------
(* The state.                                                              *)

\* The callers whose calls may be in flight at the same time.
Callers == {"A", "B"}

VARIABLES
    duffle,         \* the module-level cache: a BinaryInfo or undefined
    platform,       \* sh.platform()
    resourcesPath,  \* process.resourcesPath
    pc,             \* per caller: where its call is suspended
    req,            \* per caller: the request of its call
    cached,         \* per caller: findDuffleBinary found the cache set
    sr,             \* per caller: the outcome of the system probe
    srr,            \* per caller: the outcome of the bundled probe
    binPath,        \* per caller: the bundled binary being probed
    bin,            \* per caller: what findDuffleBinary returned
    execs,          \* per caller: the processes its call handed to the shell
    cmdOut,         \* per caller: the outcome of the command's process
    parsed,         \* per caller: the parser was applied to stdout
    result,         \* per caller: the value its call returned
    failed,         \* some resolution has returned undefined
    input,          \* the input of a renderer or parser under evaluation
    output          \* its value

resolverVars == <<duffle, platform, resourcesPath, pc, req, cached, sr, srr,
                  binPath, bin, execs, cmdOut, parsed, result, failed>>

pureVars == <<input, output>>

vars == <<duffle, platform, resourcesPath, pc, req, cached, sr, srr,
          binPath, bin, execs, cmdOut, parsed, result, failed, input, output>>

Exec(cmd) == [via |-> "exec", cmd |-> cmd]

ExecObj(cmd) == [via |-> "execObj", cmd |-> cmd]

ResolverInit ==
    /\ duffle = None
    /\ platform \in Platforms
    /\ resourcesPath \in ResourcesPaths
    /\ pc = [c \in Callers |-> "idle"]
    /\ req = [c \in Callers |-> None]
    /\ cached = [c \in Callers |-> FALSE]
    /\ sr = [c \in Callers |-> None]
    /\ srr = [c \in Callers |-> None]
    /\ binPath = [c \in Callers |-> None]
    /\ bin = [c \in Callers |-> None]
    /\ execs = [c \in Callers |-> <<>>]
    /\ cmdOut = [c \in Callers |-> None]
    /\ parsed = [c \in Callers |-> FALSE]
    /\ result = [c \in Callers |-> None]
    /\ failed = FALSE

Init ==
    /\ ResolverInit
    /\ input = None
    /\ output = None

-----------------------------------------------------------------------------
(* The steps of a call, from one await to the next.                        *)

\* A resolver that resolved again on every call.
CoreNeeded_Always(cache) == TRUE

\* A resolver that remembered a failed resolution too.
CoreNeeded_UntilResolved(cache) == cache = None /\ ~failed

\* if (!duffle)
CoreNeeded(cache) == cache = None

\* The call is made.  findDuffleBinary reads the cache: when it is set the
\* cached value is what the call will get; otherwise findDuffleBinaryCore
\* starts the system probe and suspends.
Enter(c, r) ==
    /\ req' = [req EXCEPT ![c] = r]
    /\ IF CoreNeeded(duffle)
       THEN /\ pc' = [pc EXCEPT ![c] = "sysprobe"]
            /\ execs' = [execs EXCEPT ![c] = <<Exec(SystemProbeCmd)>>]
            /\ cached' = [cached EXCEPT ![c] = FALSE]
            /\ bin' = bin
       ELSE /\ pc' = [pc EXCEPT ![c] = "resolved"]
            /\ execs' = [execs EXCEPT ![c] = <<>>]
            /\ cached' = [cached EXCEPT ![c] = TRUE]
            /\ bin' = [bin EXCEPT ![c] = duffle]
    /\ UNCHANGED <<duffle, platform, resourcesPath, sr, srr, binPath, cmdOut,
                   parsed, result, failed, input, output>>

\* A caller calls the exported findDuffleBinary.
FindDuffleBinary(c) ==
    /\ pc[c] = "idle"
    /\ Enter(c, FindRequest)

\* A caller calls list.
List(c) ==
    /\ pc[c] = "idle"
    /\ Enter(c, ListRequest)

\* A caller calls listCredentialSets.
ListCredentialSets(c) ==
    /\ pc[c] = "idle"
    /\ Enter(c, ListCredentialSetsRequest)

\* A caller calls installBundle.
InstallBundle(c) ==
    /\ pc[c] = "idle"
    /\ Enter(c, InstallBundleRequest)

\* The system probe completes.  Either findDuffleBinaryCore returns, and
\* findDuffleBinary assigns the value to the cache and returns it, or the
\* bundled probe is started.
SystemProbeDone(c) ==
    /\ pc[c] = "sysprobe"
    /\ \E out \in ProbeOutcomes :
         LET next == CoreAfterSystemProbe(out, platform, resourcesPath)
         IN  /\ sr' = [sr EXCEPT ![c] = out]
             /\ IF next.returns
                THEN /\ duffle' = next.value
                     /\ bin' = [bin EXCEPT ![c] = next.value]
                     /\ failed' = (failed \/ next.value = None)
                     /\ pc' = [pc EXCEPT ![c] = "resolved"]
                     /\ UNCHANGED <<binPath, execs>>
                ELSE /\ binPath' = [binPath EXCEPT ![c] = Some(next.binPath)]
                     /\ execs' = [execs EXCEPT
                                    ![c] = Append(@, Exec(BundledProbeCmd(next.binPath)))]
                     /\ pc' = [pc EXCEPT ![c] = "bundleprobe"]
                     /\ UNCHANGED <<duffle, bin, failed>>
    /\ UNCHANGED <<platform, resourcesPath, req, cached, srr, cmdOut, parsed,
                   result, input, output>>

\* The bundled probe completes: findDuffleBinaryCore returns, and
\* findDuffleBinary assigns the value to the cache and returns it.
BundledProbeDone(c) ==
    /\ pc[c] = "bundleprobe"
    /\ \E out \in ProbeOutcomes :
         LET value == CoreAfterBundledProbe(out, binPath[c].some)
         IN  /\ srr' = [srr EXCEPT ![c] = out]
             /\ duffle' = value
             /\ bin' = [bin EXCEPT ![c] = value]
             /\ failed' = (failed \/ value = None)
    /\ pc' = [pc EXCEPT ![c] = "resolved"]
    /\ UNCHANGED <<platform, resourcesPath, req, cached, sr, binPath, execs,
                   cmdOut, parsed, result, input, output>>

\* A direct call of findDuffleBinary returns to its caller.
FindReturns(c) ==
    /\ pc[c] = "resolved"
    /\ req[c].op = "findDuffleBinary"
    /\ result' = [result EXCEPT ![c] = bin[c]]
    /\ pc' = [pc EXCEPT ![c] = "done"]
    /\ sr' = [sr EXCEPT ![c] = None]
    /\ srr' = [srr EXCEPT ![c] = None]
    /\ binPath' = [binPath EXCEPT ![c] = None]
    /\ UNCHANGED <<duffle, platform, resourcesPath, req, cached, bin, execs,
                   cmdOut, parsed, failed, input, output>>

\* invokeObj resumes with the binary: with none it returns the failure,
\* otherwise it hands the command line to sh.execObj and suspends.
InvokeResumes(c) ==
    /\ pc[c] = "resolved"
    /\ req[c].op # "findDuffleBinary"
    /\ LET next == InvokeAfterResolve(bin[c], req[c])
       IN  IF next.returns
           THEN /\ result' = [result EXCEPT ![c] = next.value]
                /\ pc' = [pc EXCEPT ![c] = "done"]
                /\ execs' = execs
           ELSE /\ execs' = [execs EXCEPT ![c] = Append(@, ExecObj(next.cmd))]
                /\ pc' = [pc EXCEPT ![c] = "exec"]
                /\ result' = result
    /\ sr' = [sr EXCEPT ![c] = None]
    /\ srr' = [srr EXCEPT ![c] = None]
    /\ binPath' = [binPath EXCEPT ![c] = None]
    /\ UNCHANGED <<duffle, platform, resourcesPath, req, cached, bin, cmdOut,
                   parsed, failed, input, output>>

\* The command completes and invokeObj returns what sh.execObj made of it.
CommandDone(c) ==
    /\ pc[c] = "exec"
    /\ \E out \in CommandOutcomes :
         /\ cmdOut' = [cmdOut EXCEPT ![c] = out]
         /\ result' = [result EXCEPT ![c] = ExecObjResult(out, req[c].parser)]
         /\ parsed' = [parsed EXCEPT ![c] = ExecObjParses(out)]
    /\ pc' = [pc EXCEPT ![c] = "done"]
    /\ UNCHANGED <<duffle, platform, resourcesPath, req, cached, sr, srr,
                   binPath, bin, execs, failed, input, output>>

\* The caller has its result; the call's locals are gone.
Returned(c) ==
    /\ pc[c] = "done"
    /\ pc' = [pc EXCEPT ![c] = "idle"]
    /\ req' = [req EXCEPT ![c] = None]
    /\ cached' = [cached EXCEPT ![c] = FALSE]
    /\ bin' = [bin EXCEPT ![c] = None]
    /\ execs' = [execs EXCEPT ![c] = <<>>]
    /\ cmdOut' = [cmdOut EXCEPT ![c] = None]
    /\ parsed' = [parsed EXCEPT ![c] = FALSE]
    /\ result' = [result EXCEPT ![c] = None]
    /\ UNCHANGED <<duffle, platform, resourcesPath, sr, srr, binPath, failed,
                   input, output>>

OthersIdle(c) == \A d \in Callers \ {c} : pc[d] = "idle"

\* Callers may call at any time: calls overlap at their awaits.
Next ==
    \E c \in Callers :
        \/ FindDuffleBinary(c)
        \/ List(c)
        \/ ListCredentialSets(c)
        \/ InstallBundle(c)
        \/ SystemProbeDone(c)
        \/ BundledProbeDone(c)
        \/ FindReturns(c)
        \/ InvokeResumes(c)
        \/ CommandDone(c)
        \/ Returned(c)

Spec == Init /\ [][Next]_vars

\* Sequential calls: a call is made only when no other call is in flight.
NextSeq ==
    \E c \in Callers :
        \/ OthersIdle(c) /\ FindDuffleBinary(c)
        \/ OthersIdle(c) /\ List(c)
        \/ OthersIdle(c) /\ ListCredentialSets(c)
        \/ OthersIdle(c) /\ InstallBundle(c)
        \/ SystemProbeDone(c)
        \/ BundledProbeDone(c)
        \/ FindReturns(c)
        \/ InvokeResumes(c)
        \/ CommandDone(c)
        \/ Returned(c)

SpecSeq == Init /\ [][NextSeq]_vars

-----------------------------------------------------------------------------
(* The renderers and the parsers on their own: one evaluation per          *)
(* behaviour, of an input drawn from bounded sets.                         *)

\* The longest parameter mapping rendered.
MaxParams == 2

\* The longest stdout parsed (the documented example aside).
MaxStdout == 4

ParamKeys == {<<"x">>, <<"y">>, <<"k", "2">>}

ParamValues == {<<>>, <<"1">>, <<"a", " ", "b">>}

ParamEntries == [key : ParamKeys, value : ParamValues]

\* The mappings: keys are unique, entries in iteration order.
ParamMaps ==
    UNION { { m \in [1..n -> ParamEntries] :
                \A i, j \in 1..n : i # j => m[i].key # m[j].key } :
            n \in 0..MaxParams }

CredentialSets == {None, Some(<<>>), Some(SampleCreds), Some(<<"m", "y">>)}

BundleNames == {SampleBundle, <<"b">>}

FilePaths == {<<"/", "t", "/", "b", ".", "j">>}

StdoutChars == {"a", "b", " ", "\n"}

\* "a\n  b  \n\nc\n"
ExampleStdout == <<"a", "\n", " ", " ", "b", " ", " ", "\n", "\n", "c", "\n">>

Stdouts == UNION { [1..n -> StdoutChars] : n \in 0..MaxStdout } \cup {ExampleStdout}

PureInputs ==
    {[fn |-> "paramsArgs", params |-> m] : m \in ParamMaps}
    \cup {[fn |-> "credentialArg", credentialSet |-> cs] : cs \in CredentialSets}
    \cup {[fn |-> "installBundle", bundleName |-> b, name |-> SampleName,
           params |-> m, credentialSet |-> cs] :
             b \in BundleNames, m \in ParamMaps, cs \in CredentialSets}
    \cup {[fn |-> "installFile", bundleFilePath |-> f, name |-> SampleName,
           params |-> m, credentialSet |-> cs] :
             f \in FilePaths, m \in ParamMaps, cs \in CredentialSets}
    \cup {[fn |-> "list", stdout |-> t] : t \in Stdouts}
    \cup {[fn |-> "listCredentialSets", stdout |-> t] : t \in Stdouts}

PureInit ==
    /\ ResolverInit
    /\ platform = "Linux"
    /\ resourcesPath = None
    /\ input \in PureInputs
    /\ output = None

Evaluate(fn, value) ==
    /\ input.fn = fn
    /\ output = None
    /\ output' = value
    /\ UNCHANGED resolverVars
    /\ UNCHANGED input

RenderParamsArgs ==
    /\ input.fn = "paramsArgs"
    /\ Evaluate("paramsArgs", [text |-> paramsArgs(input.params)])

RenderCredentialArg ==
    /\ input.fn = "credentialArg"
    /\ Evaluate("credentialArg", [text |-> credentialArg(input.credentialSet)])

\* The args installBundle passes to invokeObj.
RenderInstallBundle ==
    /\ input.fn = "installBundle"
    /\ Evaluate("installBundle",
                [text |-> InstallBundleArgs(input.bundleName, input.name,
                                            input.params, input.credentialSet)])

\* The args installFile passes to invokeObj.
RenderInstallFile ==
    /\ input.fn = "installFile"
    /\ Evaluate("installFile",
                [text |-> InstallFileArgs(input.bundleFilePath, input.name,
                                          input.params, input.credentialSet)])

\* The parser of list applied to a stdout.
ParseListStdout ==
    /\ input.fn = "list"
    /\ Evaluate("list", [lines |-> ParseList(input.stdout)])

\* The parser of listCredentialSets applied to a stdout.
ParseCredentialSetsStdout ==
    /\ input.fn = "listCredentialSets"
    /\ Evaluate("listCredentialSets", [lines |-> ParseCredentialSets(input.stdout)])

NextPure ==
    \/ RenderParamsArgs
    \/ RenderCredentialArg
    \/ RenderInstallBundle
    \/ RenderInstallFile
    \/ ParseListStdout
    \/ ParseCredentialSetsStdout

SpecPure == PureInit /\ [][NextPure]_vars

-----------------------------------------------------------------------------
(* Properties of the resolver and of the invocation facade.                *)

\* The processes a call handed to sh.exec (the version probes).
Probes(c) == SelectSeq(execs[c], LAMBDA e : e.via = "exec")

\* The processes a call handed to sh.execObj (the real command).
Commands(c) == SelectSeq(execs[c], LAMBDA e : e.via = "execObj")

\* t is s without its leading and trailing whitespace.
IsTrimOf(t, s) ==
    \E i \in 1..(Len(s) + 1) :
        \E j \in (i - 1)..Len(s) :
            /\ t = SubSeq(s, i, j)
            /\ \A k \in 1..(i - 1) : s[k] \in WhiteSpace
            /\ \A k \in (j + 1)..Len(s) : s[k] \in WhiteSpace
            /\ t # <<>> => (t[1] \notin WhiteSpace /\ t[Len(t)] \notin WhiteSpace)

HasSuffix(s, suffix) ==
    /\ Len(suffix) <= Len(s)
    /\ SubSeq(s, Len(s) - Len(suffix) + 1, Len(s)) = suffix

HasPrefix(s, prefix) ==
    /\ Len(prefix) <= Len(s)
    /\ SubSeq(s, 1, Len(prefix)) = prefix

VersionCmdSuffix == <<" ", "v", "e", "r", "s", "i", "o", "n">>

DuffleVersionCmd ==
    <<"d", "u", "f", "f", "l", "e", " ", "v", "e", "r", "s", "i", "o", "n">>

\* C1: with calls made one after the other, once the cache holds a
\* BinaryInfo it never changes again, no call starts a version probe any
\* more, and every call made from then on gets the cached BinaryInfo
\* without handing anything to the shell for its resolution.
C1_CachedBinaryIsFinal ==
    [][duffle # None =>
         /\ duffle' = duffle
         /\ \A c \in Callers :
              /\ Len(SelectSeq(execs'[c], LAMBDA e : e.via = "exec"))
                   <= Len(SelectSeq(execs[c], LAMBDA e : e.via = "exec"))
              /\ (pc[c] = "idle" /\ pc'[c] # "idle") =>
                   /\ pc'[c] = "resolved"
                   /\ bin'[c] = duffle
                   /\ execs'[c] = <<>>]_vars

\* A direct call and an operation were both served from the cache: no probe.
C1_Witness ==
    \E c \in Callers :
        /\ duffle # None
        /\ pc[c] = "done"
        /\ cached[c]
        /\ Probes(c) = <<>>
        /\ \/ req[c].op = "findDuffleBinary" /\ result[c] = duffle
           \/ req[c].op = "list" /\ result[c].succeeded

\* C2 as stated: with no resource root configured, once a resolution has
\* returned undefined no later call runs a version probe.
C2_FailureIsMemoized ==
    (failed /\ resourcesPath = None) =>
        \A c \in Callers : pc[c] \notin {"sysprobe", "bundleprobe"}

\* C2, amended: with calls made one after the other and no resource root
\* configured, a failed system probe makes the resolution return undefined
\* after that one process, and the operation fails with the single "Can't
\* find Duffle" message without running its command; the failure is not
\* remembered: the cache stays unset and every call made while it is unset
\* starts its resolution with the system probe again.
C2_FailureIsNotMemoized ==
    \A c \in Callers :
        /\ (pc[c] = "resolved" /\ ~cached[c] /\ resourcesPath = None
              /\ ~(sr[c].started /\ sr[c].code = 0)) =>
               /\ bin[c] = None
               /\ duffle = None
               /\ execs[c] = <<Exec(DuffleVersionCmd)>>
        /\ (pc[c] = "done" /\ bin[c] = None /\ req[c].op # "findDuffleBinary") =>
               /\ result[c] = [succeeded |-> FALSE, error |-> <<S_cantFind>>]
               /\ Commands(c) = <<>>
        /\ (failed /\ duffle = None /\ pc[c] # "idle") =>
               /\ ~cached[c]
               /\ execs[c] # <<>>
               /\ execs[c][1] = Exec(DuffleVersionCmd)

\* After a failed resolution an operation is probing again.
C2_Witness ==
    \E c \in Callers :
        /\ failed
        /\ resourcesPath = None
        /\ duffle = None
        /\ pc[c] = "sysprobe"
        /\ req[c].op = "list"

\* C3: under every interleaving of overlapping calls, once the cache holds
\* a BinaryInfo no later write replaces it by another BinaryInfo or by
\* undefined.
C3_CacheWrittenOnce == [][duffle # None => duffle' = duffle]_vars

\* C4: an operation whose resolution returned undefined returns the failure
\* with exactly the one "Can't find Duffle" message, sh.execObj is never
\* called, and everything its call handed to the shell is a version probe.
C4_UnavailableShortCircuits ==
    \A c \in Callers :
        (pc[c] = "done" /\ req[c].op # "findDuffleBinary" /\ bin[c] = None) =>
            /\ result[c].succeeded = FALSE
            /\ Len(result[c].error) = 1
            /\ result[c].error[1] = S_cantFind
            /\ ~parsed[c]
            /\ \A i \in 1..Len(execs[c]) :
                 /\ execs[c][i].via = "exec"
                 /\ HasSuffix(execs[c][i].cmd, VersionCmdSuffix)

\* An operation failed after both probes failed.
C4_Witness ==
    \E c \in Callers :
        /\ pc[c] = "done"
        /\ req[c].op = "installBundle"
        /\ bin[c] = None
        /\ result[c] = CantFindResult
        /\ Len(execs[c]) = 2

\* C5: a resolution that runs always executes `duffle version` first; when
\* that probe starts and exits with code 0 the resolution ends with nothing
\* else executed, and yields the path `duffle` with the trimmed stdout of
\* that probe as the version.
C5_SystemProbeFirst ==
    \A c \in Callers :
        /\ (pc[c] # "idle" /\ ~cached[c]) =>
               /\ execs[c] # <<>>
               /\ execs[c][1] = Exec(DuffleVersionCmd)
        /\ (pc[c] = "resolved" /\ ~cached[c] /\ sr[c].started /\ sr[c].code = 0) =>
               /\ execs[c] = <<Exec(DuffleVersionCmd)>>
               /\ srr[c] = None
               /\ bin[c] # None
               /\ bin[c].path = <<"d", "u", "f", "f", "l", "e">>
               /\ IsTrimOf(bin[c].version, sr[c].stdout)

\* The system probe printed "v1\n" and the resolution yielded duffle, v1.
C5_Witness ==
    \E c \in Callers :
        /\ pc[c] = "resolved"
        /\ ~cached[c]
        /\ sr[c] = Exited(0, <<"v", "1", "\n">>)
        /\ bin[c] = [path |-> S_duffle, version |-> <<"v", "1">>]

\* The platforms with a bundled binary.
BundledPlatforms == {"Windows", "Linux", "MacOS"}

\* A resource root is exposed: process.resourcesPath is a non-empty string.
RootExposed == resourcesPath # None /\ resourcesPath.some # <<>>

\* p is the relative path rel under the directory root.
IsUnder(p, root, rel) ==
    LET dir == IF root[Len(root)] = "/" THEN SubSeq(root, 1, Len(root) - 1) ELSE root
    IN  /\ HasPrefix(p, dir)
        /\ HasSuffix(p, rel)
        /\ Len(p) = Len(dir) + 1 + Len(rel)
        /\ p[Len(dir) + 1] = "/"

\* The bundled binary's place under the resource root, per platform.
BundledRelPath ==
    CASE platform = "Windows" ->
           <<"d", "u", "f", "f", "l", "e", "b", "i", "n", "/", "w", "i", "n", "3", "2",
             "/", "d", "u", "f", "f", "l", "e", ".", "e", "x", "e">>
      [] platform = "Linux" ->
           <<"d", "u", "f", "f", "l", "e", "b", "i", "n", "/", "l", "i", "n", "u", "x",
             "/", "d", "u", "f", "f", "l", "e">>
      [] OTHER ->
           <<"d", "u", "f", "f", "l", "e", "b", "i", "n", "/", "d", "a", "r", "w", "i", "n",
             "/", "d", "u", "f", "f", "l", "e">>

\* C6: a bundled probe is executed only after a failed system probe, on
\* Windows, Linux or macOS, with a resource root exposed; on any other
\* platform, or with no root, a resolution whose system probe failed returns
\* undefined having executed that one process.  When the bundled probe runs
\* the resolution yields the binary under the root (root joined with the
\* platform's relative path) iff the probe exits with code 0, and undefined
\* otherwise.
C6_BundledProbeOnlyWhenAvailable ==
    \A c \in Callers :
        /\ Len(Probes(c)) <= 2
        /\ Len(Probes(c)) = 2 =>
               /\ platform \in BundledPlatforms
               /\ RootExposed
               /\ pc[c] \in {"bundleprobe", "resolved"} =>
                    ~(sr[c].started /\ sr[c].code = 0)
               /\ IsUnder(SubSeq(Probes(c)[2].cmd, 1,
                                 Len(Probes(c)[2].cmd) - Len(VersionCmdSuffix)),
                          resourcesPath.some, BundledRelPath)
               /\ HasSuffix(Probes(c)[2].cmd, VersionCmdSuffix)
        /\ (pc[c] = "resolved" /\ ~cached[c] /\ ~(sr[c].started /\ sr[c].code = 0)
              /\ (platform \notin BundledPlatforms \/ ~RootExposed)) =>
               /\ bin[c] = None
               /\ execs[c] = <<Exec(DuffleVersionCmd)>>
        /\ (pc[c] = "resolved" /\ ~cached[c] /\ srr[c] # None) =>
               /\ Len(Probes(c)) = 2
               /\ (srr[c].started /\ srr[c].code = 0) <=> (bin[c] # None)
               /\ bin[c] # None =>
                    /\ IsUnder(bin[c].path, resourcesPath.some, BundledRelPath)
                    /\ IsTrimOf(bin[c].version, srr[c].stdout)

\* On Linux with the root /r/ the bundled probe printed " v2".
C6_Witness ==
    \E c \in Callers :
        /\ pc[c] = "resolved"
        /\ platform = "Linux"
        /\ sr[c] = StartFailure
        /\ srr[c] = Exited(0, <<" ", "v", "2">>)
        /\ bin[c] = [path |-> <<"/", "r", "/">> \o S_linuxPath, version |-> <<"v", "2">>]

\* C10: an operation whose resolution yielded a binary runs its command
\* exactly once, after the resolution, as `<path> <operation> <args>` with
\* the path of the binary that resolution yielded; the parser is applied
\* exactly when the process ran and exited with code 0, which is exactly
\* when the result is a success; a non-zero exit or a process that could
\* not be started gives a failure and no parse.
C10_CommandRunsOnceAfterResolution ==
    \A c \in Callers :
        /\ pc[c] \in {"sysprobe", "bundleprobe", "resolved"} =>
               (Commands(c) = <<>> /\ ~parsed[c])
        /\ (pc[c] \in {"exec", "done"} /\ req[c].op # "findDuffleBinary"
              /\ bin[c] # None) =>
               /\ Len(Commands(c)) = 1
               /\ execs[c][Len(execs[c])] =
                    ExecObj(bin[c].path \o <<" ">> \o req[c].command
                                        \o <<" ">> \o req[c].args)
               /\ pc[c] = "exec" => ~parsed[c]
               /\ pc[c] = "done" =>
                    /\ parsed[c] <=> (cmdOut[c].started /\ cmdOut[c].code = 0)
                    /\ result[c].succeeded <=> parsed[c]
                    /\ (req[c].op = "list" /\ parsed[c]) =>
                         result[c].result = [lines |-> ParseList(cmdOut[c].stdout)]

\* installBundle ran `duffle install n foo --set x=1 -c creds` and succeeded.
C10_Witness ==
    \E c \in Callers :
        /\ pc[c] = "done"
        /\ req[c].op = "installBundle"
        /\ parsed[c]
        /\ result[c].succeeded
        /\ execs[c][Len(execs[c])].cmd =
             <<"d", "u", "f", "f", "l", "e", " ", "i", "n", "s", "t", "a", "l", "l", " ",
               "n", " ", "f", "o", "o", " ", "-", "-", "s", "e", "t", " ", "x", "=", "1",
               " ", "-", "c", " ", "c", "r", "e", "d", "s">>

-----------------------------------------------------------------------------
(* Properties of the renderers and of the parsers.                         *)

\* The concatenation of a sequence of strings.
RECURSIVE Concat(_)
Concat(items) == IF items = <<>> THEN <<>> ELSE Head(items) \o Concat(Tail(items))

\* The number of places where the string part occurs in the string s.
Occurrences(s, part) ==
    Cardinality({i \in 1..(Len(s) - Len(part) + 1) :
                   SubSeq(s, i, i + Len(part) - 1) = part})

\* The `--set` tokens a parameter mapping asks for: one per entry with a
\* non-empty value, in the mapping's order, a space before all but the first.
SetTokens(params) ==
    LET kept == SelectSeq(params, LAMBDA p : Len(p.value) > 0)
    IN  [i \in 1..Len(kept) |->
           (IF i = 1 THEN <<>> ELSE <<" ">>)
             \o <<"-", "-", "s", "e", "t", " ">> \o kept[i].key \o <<"=">>
             \o SafeValue(kept[i].value)]

\* The credential flag the spec asks for.
CredentialFlag(credentialSet) ==
    IF credentialSet = None \/ credentialSet.some = <<>>
    THEN <<>>
    ELSE <<"-", "c", " ">> \o credentialSet.some

\* C7: paramsArgs renders exactly one `--set <key>=<escaped value>` token
\* for each entry with a non-empty value, in the mapping's order, separated
\* by single spaces, and nothing for the entries with an empty value (the
\* empty string when every value is empty).
C7_ParamsArgs ==
    (input # None /\ output # None /\ input.fn = "paramsArgs") =>
        /\ output.text = Concat(SetTokens(input.params))
        /\ Occurrences(output.text, <<"-", "-", "s", "e", "t", " ">>)
             = Cardinality({i \in 1..Len(input.params) : input.params[i].value # <<>>})
        /\ (\A i \in 1..Len(input.params) : input.params[i].value = <<>>) =>
             output.text = <<>>
        /\ \A i \in 1..Len(input.params) :
             input.params[i].value = <<>> =>
               Occurrences(output.text, input.params[i].key \o <<"=">>) = 0

\* {y: "", x: "a b"} rendered as `--set x="a b"`, the y entry dropped.
C7_Witness ==
    /\ input # None
    /\ output # None
    /\ input.fn = "paramsArgs"
    /\ input.params = << [key |-> <<"y">>, value |-> <<>>],
                         [key |-> <<"x">>, value |-> <<"a", " ", "b">>] >>
    /\ output.text = <<"-", "-", "s", "e", "t", " ", "x", "=", "\"", "a", " ", "b", "\"">>

\* C8 as stated: the install args are the bundle name, then the `--set`
\* tokens of the non-empty parameters, then `-c <credentialSet>` when a
\* credential set is given, separated by single spaces.
C8_InstallArgsAsStated ==
    (input # None /\ output # None /\ input.fn = "installBundle") =>
        output.text =
            Join(NonEmptyOnly(<<input.bundleName, Concat(SetTokens(input.params)),
                                CredentialFlag(input.credentialSet)>>), <<" ">>)

\* C8, amended: the install args are four parts joined by single spaces: the
\* installation name, then the bundle name (installBundle) or `-f "<file>"`
\* (installFile), then the `--set` tokens of the non-empty parameters, then
\* `-c <credentialSet>` when a non-empty credential set is given and the
\* empty string when it is not; an empty part still has its separator.
C8_InstallArgs ==
    (input # None /\ output # None /\ input.fn \in {"installBundle", "installFile"}) =>
        LET second == IF input.fn = "installBundle"
                      THEN input.bundleName
                      ELSE <<"-", "f", " ", "\"">> \o input.bundleFilePath \o <<"\"">>
            given == input.credentialSet # None /\ input.credentialSet.some # <<>>
        IN  /\ output.text =
                 Join(<<input.name, second, Concat(SetTokens(input.params)),
                        CredentialFlag(input.credentialSet)>>, <<" ">>)
            /\ given => HasSuffix(output.text,
                                  <<" ", "-", "c", " ">> \o input.credentialSet.some)
            /\ ~given => /\ Occurrences(output.text, <<"-", "c", " ">>) = 0
                         /\ output.text[Len(output.text)] = " "

\* installBundle of bundle foo as n with {x: "1", y: ""} and creds rendered
\* `n foo --set x=1 -c creds`.
C8_Witness ==
    /\ input # None
    /\ output # None
    /\ input.fn = "installBundle"
    /\ input.bundleName = <<"f", "o", "o">>
    /\ input.name = <<"n">>
    /\ input.params = << [key |-> <<"x">>, value |-> <<"1">>],
                         [key |-> <<"y">>, value |-> <<>>] >>
    /\ input.credentialSet = Some(<<"c", "r", "e", "d", "s">>)
    /\ output.text = <<"n", " ", "f", "o", "o", " ", "-", "-", "s", "e", "t", " ", "x",
                       "=", "1", " ", "-", "c", " ", "c", "r", "e", "d", "s">>

\* The places that bound the lines of s: before it, after it, its newlines.
LineBounds(s) == {0, Len(s) + 1} \cup {i \in 1..Len(s) : s[i] = "\n"}

\* The places of the non-whitespace characters of the line that starts after p.
LineInk(s, p) ==
    LET q == CHOOSE b \in LineBounds(s) : b > p /\ \A x \in LineBounds(s) : x > p => b <= x
    IN  {i \in (p + 1)..(q - 1) : s[i] \notin WhiteSpace}

\* The lines of s, trimmed, the blank ones left out, in their order.
TrimmedLines(s) ==
    LET starts == {p \in LineBounds(s) : p <= Len(s) /\ LineInk(s, p) # {}}
        first(p) == CHOOSE i \in LineInk(s, p) : \A j \in LineInk(s, p) : i <= j
        last(p) == CHOOSE i \in LineInk(s, p) : \A j \in LineInk(s, p) : j <= i
        nth(n) == CHOOSE p \in starts : Cardinality({x \in starts : x < p}) = n - 1
    IN  [n \in 1..Cardinality(starts) |-> SubSeq(s, first(nth(n)), last(nth(n)))]

\* C9: the parser of list and the parser of listCredentialSets both map a
\* stdout to its newline-separated lines, each trimmed, the lines that are
\* empty after trimming removed, the others in their order; "a\n  b  \n\nc\n"
\* gives a, b, c.
C9_TrimmedLineList ==
    (input # None /\ output # None /\ input.fn \in {"list", "listCredentialSets"}) =>
        /\ output.lines = TrimmedLines(input.stdout)
        /\ input.stdout = ExampleStdout => output.lines = << <<"a">>, <<"b">>, <<"c">> >>

\* The example: "a\n  b  \n\nc\n" parsed by listCredentialSets.
C9_Witness ==
    /\ input # None
    /\ output # None
    /\ input.fn = "listCredentialSets"
    /\ input.stdout = <<"a", "\n", " ", " ", "b", " ", " ", "\n", "\n", "c", "\n">>
    /\ output.lines = << <<"a">>, <<"b">>, <<"c">> >>

====
